---- MODULE Spec2Model ----
(***************************************************************************)
(* Model of the expression parser: the runtime tokenizer, parser and       *)
(* evaluator (src/src/parsing.rs, src/src/expression.rs) and the           *)
(* compile-time expr! macro with its own tokenizer and parser              *)
(* (src/expression_macro/src/lib.rs).                                      *)
(*                                                                         *)
(* Representation.  A Rust `Result` is <<"Ok", v>> or <<"Err", msg>>, an   *)
(* `Option` is <<"Some", v>> or <<"None">>.  An error message is a tuple   *)
(* of its pieces, e.g. <<"Unexpected character: ", c>>.  A string is the   *)
(* sequence of its characters.  An f64 is an extended rational <<n, d>>    *)
(* in lowest terms with d >= 0: d = 0 encodes +inf <<1,0>>, -inf <<-1,0>>  *)
(* and NaN <<0,0>>; the two signed zeroes, which compare equal, are one    *)
(* value <<0,1>>.                                                          *)
(***************************************************************************)
EXTENDS Integers, Sequences, FiniteSets, TLC

VARIABLES pc, input, lexed, parser, parsed, expanded, tree, variables, value,
          visited, stack, ret

vars ==
    <<pc, input, lexed, parser, parsed, expanded, tree, variables, value,
      visited, stack, ret>>

(***************************************************************************)
(* Bounds of the model.                                                    *)
(***************************************************************************)
MaxLen == 3

MaxTokens == 4

MaxLeaves == 3

(***************************************************************************)
(* Result and Option.                                                      *)
(***************************************************************************)
Ok(v) == <<"Ok", v>>

Err(e) == <<"Err", e>>

IsOk(r) == r[1] = "Ok"

IsErr(r) == r[1] = "Err"

Some(v) == <<"Some", v>>

None == <<"None">>

Unset == <<"Unset">>

\* The value of the variable parser while no Parser exists.
NoParser == [tokens |-> <<>>, current |-> -1]

(***************************************************************************)
(* f64 as an extended rational.                                            *)
(***************************************************************************)
Abs(n) == IF n < 0 THEN -n ELSE n

Sgn(n) == IF n < 0 THEN -1 ELSE IF n = 0 THEN 0 ELSE 1

RECURSIVE Gcd(_, _)
Gcd(a, b) == IF b = 0 THEN a ELSE Gcd(b, a % b)

Norm(n, d) ==
    IF d = 0 THEN <<Sgn(n), 0>>
    ELSE LET g == Gcd(Abs(n), Abs(d))
         IN  <<(Sgn(d) * n) \div g, Abs(d) \div g>>

NaN == <<0, 0>>

Inf == <<1, 0>>

Zero == <<0, 1>>

One == <<1, 1>>

IsNaN(x) == x = NaN

IsFinite(x) == x[2] # 0

FAdd(x, y) ==
    IF IsNaN(x) \/ IsNaN(y) THEN NaN
    ELSE IF ~IsFinite(x) /\ ~IsFinite(y) THEN (IF x = y THEN x ELSE NaN)
    ELSE IF ~IsFinite(x) THEN x
    ELSE IF ~IsFinite(y) THEN y
    ELSE Norm(x[1] * y[2] + y[1] * x[2], x[2] * y[2])

FNeg(x) == <<-x[1], x[2]>>

FSub(x, y) == FAdd(x, FNeg(y))

FMul(x, y) == Norm(x[1] * y[1], x[2] * y[2])

\* x / y of IEEE 754; the signed zeroes being one value, x / 0 is +inf or
\* -inf by the sign of x only.
FDiv(x, y) ==
    IF y = Zero THEN Norm(x[1], 0)
    ELSE Norm(x[1] * y[2] * Sgn(y[1]), x[2] * Abs(y[1]))

FLess(x, y) ==
    /\ ~IsNaN(x)
    /\ ~IsNaN(y)
    /\ IF IsFinite(x) /\ IsFinite(y) THEN x[1] * y[2] < y[1] * x[2]
       ELSE IF IsFinite(x) THEN y = Inf
       ELSE IF IsFinite(y) THEN x = FNeg(Inf)
       ELSE x = FNeg(Inf) /\ y = Inf

FAbs(x) == <<Abs(x[1]), x[2]>>

RECURSIVE IntPow(_, _)
IntPow(x, k) == IF k = 0 THEN One ELSE FMul(x, IntPow(x, k - 1))

\* f64::powf.  A finite base other than 0 and 1 raised to a finite
\* exponent that is no integer has no rational value: the model marks the
\* result Inexact, and EvaluateExact states that no evaluation within the
\* bounds meets the case.
Inexact == <<0, -1>>

powf(x, y) ==
    IF y = Zero \/ x = One THEN One
    ELSE IF IsNaN(x) \/ IsNaN(y) THEN NaN
    ELSE IF ~IsFinite(y) THEN
        IF FAbs(x) = One THEN One
        ELSE IF FLess(One, FAbs(x)) = (y = Inf) THEN Inf
        ELSE Zero
    ELSE IF y[2] = 1 THEN
        IF y[1] > 0 THEN IntPow(x, y[1])
        ELSE FDiv(One, IntPow(x, -y[1]))
    ELSE IF x = Zero \/ ~IsFinite(x) THEN
        (IF (x = Zero) = (y[1] > 0) THEN Zero ELSE Inf)
    ELSE IF x[1] < 0 THEN NaN
    ELSE Inexact

(***************************************************************************)
(* Characters.                                                             *)
(***************************************************************************)
Digits == {"0", "1", "2", "3", "4", "5", "6", "7", "8", "9"}

Letters ==
    {"a", "b", "c", "d", "e", "f", "g", "h", "i", "j", "k", "l", "m",
     "n", "o", "p", "q", "r", "s", "t", "u", "v", "w", "x", "y", "z",
     "A", "B", "C", "D", "E", "F", "G", "H", "I", "J", "K", "L", "M",
     "N", "O", "P", "Q", "R", "S", "T", "U", "V", "W", "X", "Y", "Z"}

is_ascii_digit(c) == c \in Digits

is_ascii_alphabetic(c) == c \in Letters

DigitValue(c) ==
    CASE c = "0" -> 0 [] c = "1" -> 1 [] c = "2" -> 2 [] c = "3" -> 3
      [] c = "4" -> 4 [] c = "5" -> 5 [] c = "6" -> 6 [] c = "7" -> 7
      [] c = "8" -> 8 [] c = "9" -> 9

\* <f64 as FromStr>::from_str on a run of digits and '.': the run is a
\* float literal iff it has at most one '.' and at least one digit; its
\* value is the decimal number it writes.
RECURSIVE DecimalValue(_, _, _, _, _)
DecimalValue(num, i, n, d, frac) ==
    IF i > Len(num) THEN Norm(n, d)
    ELSE IF num[i] = "." THEN DecimalValue(num, i + 1, n, d, TRUE)
    ELSE DecimalValue(num, i + 1, 10 * n + DigitValue(num[i]),
                      IF frac THEN 10 * d ELSE d, frac)

parse_f64(num) ==
    LET dots == {i \in 1..Len(num) : num[i] = "."}
        digs == {i \in 1..Len(num) : num[i] \in Digits}
    IN  IF Cardinality(dots) <= 1 /\ digs # {}
        THEN Ok(DecimalValue(num, 1, 0, 1, FALSE))
        ELSE Err(<<"invalid float literal">>)

(***************************************************************************)
(* Tokens.                                                                 *)
(***************************************************************************)
TNumber(n) == <<"Number", n>>

TVariable(name) == <<"Variable", name>>

Plus == <<"Plus">>

Minus == <<"Minus">>

Star == <<"Star">>

Slash == <<"Slash">>

Caret == <<"Caret">>

LParen == <<"LParen">>

RParen == <<"RParen">>

(***************************************************************************)
(* parsing::tokenize, the runtime tokenizer.  i is the position of the     *)
(* peekable iterator, tokens the vector built so far.                      *)
(***************************************************************************)
RECURSIVE number_run(_, _)
number_run(s, j) ==
    IF j <= Len(s) /\ (is_ascii_digit(s[j]) \/ s[j] = ".")
    THEN number_run(s, j + 1)
    ELSE j

RECURSIVE name_run(_, _)
name_run(s, j) ==
    IF j <= Len(s) /\ is_ascii_alphabetic(s[j])
    THEN name_run(s, j + 1)
    ELSE j

\* A whitespace arm without the tab.
IsWhitespace_no_tab(c) == c \in {" ", "\r"}

IsWhitespace(c) == c \in {" ", "\t", "\r"}

RECURSIVE tokenize_from(_, _, _)
tokenize_from(s, i, tokens) ==
    IF i > Len(s) THEN Ok(tokens)
    ELSE LET c == s[i] IN
      IF IsWhitespace(c) THEN tokenize_from(s, i + 1, tokens)
      ELSE IF c \in Digits \/ c = "." THEN
        LET j == number_run(s, i)
            num == parse_f64(SubSeq(s, i, j - 1))
        IN  IF IsErr(num) THEN Err(<<"Invalid number">>)
            ELSE tokenize_from(s, j, Append(tokens, TNumber(num[2])))
      ELSE IF c \in Letters THEN
        LET j == name_run(s, i)
        IN  tokenize_from(s, j, Append(tokens, TVariable(SubSeq(s, i, j - 1))))
      ELSE IF c = "+" THEN tokenize_from(s, i + 1, Append(tokens, Plus))
      ELSE IF c = "-" THEN tokenize_from(s, i + 1, Append(tokens, Minus))
      ELSE IF c = "*" THEN tokenize_from(s, i + 1, Append(tokens, Star))
      ELSE IF c = "/" THEN tokenize_from(s, i + 1, Append(tokens, Slash))
      ELSE IF c = "^" THEN tokenize_from(s, i + 1, Append(tokens, Caret))
      ELSE IF c = "(" THEN tokenize_from(s, i + 1, Append(tokens, LParen))
      ELSE IF c = ")" THEN tokenize_from(s, i + 1, Append(tokens, RParen))
      ELSE Err(<<"Unexpected character: ", c>>)

\* A tokenizer that ends the vector with an end-of-input token.
tokenize_eof(s) ==
    LET r == tokenize_from(s, 1, <<>>)
    IN  IF IsOk(r) THEN Ok(Append(r[2], <<"Eof">>)) ELSE r

tokenize(s) == tokenize_from(s, 1, <<>>)

(***************************************************************************)
(* expression_macro's tokenize, the compile-time tokenizer.                *)
(***************************************************************************)
RECURSIVE macro_number_run(_, _)
macro_number_run(s, j) ==
    IF j <= Len(s) /\ (is_ascii_digit(s[j]) \/ s[j] = ".")
    THEN macro_number_run(s, j + 1)
    ELSE j

RECURSIVE macro_name_run(_, _)
macro_name_run(s, j) ==
    IF j <= Len(s) /\ is_ascii_alphabetic(s[j])
    THEN macro_name_run(s, j + 1)
    ELSE j

\* The compile-time whitespace arm with the runtime's characters.
MacroIsWhitespace_no_newline(c) == c \in {" ", "\t", "\r"}

MacroIsWhitespace(c) == c \in {" ", "\t", "\r", "\n"}

RECURSIVE macro_tokenize_from(_, _, _)
macro_tokenize_from(s, i, tokens) ==
    IF i > Len(s) THEN Ok(tokens)
    ELSE LET c == s[i] IN
      IF MacroIsWhitespace(c) THEN macro_tokenize_from(s, i + 1, tokens)
      ELSE IF c \in Digits \/ c = "." THEN
        LET j == macro_number_run(s, i)
            num == parse_f64(SubSeq(s, i, j - 1))
        IN  IF IsErr(num) THEN Err(<<"Invalid number format">>)
            ELSE macro_tokenize_from(s, j, Append(tokens, TNumber(num[2])))
      ELSE IF c \in Letters THEN
        LET j == macro_name_run(s, i)
        IN  macro_tokenize_from(s, j,
                                Append(tokens, TVariable(SubSeq(s, i, j - 1))))
      ELSE IF c = "+" THEN macro_tokenize_from(s, i + 1, Append(tokens, Plus))
      ELSE IF c = "-" THEN macro_tokenize_from(s, i + 1, Append(tokens, Minus))
      ELSE IF c = "*" THEN macro_tokenize_from(s, i + 1, Append(tokens, Star))
      ELSE IF c = "/" THEN macro_tokenize_from(s, i + 1, Append(tokens, Slash))
      ELSE IF c = "^" THEN macro_tokenize_from(s, i + 1, Append(tokens, Caret))
      ELSE IF c = "(" THEN macro_tokenize_from(s, i + 1, Append(tokens, LParen))
      ELSE IF c = ")" THEN macro_tokenize_from(s, i + 1, Append(tokens, RParen))
      ELSE Err(<<"Unexpected character: ", c>>)

macro_tokenize(s) == macro_tokenize_from(s, 1, <<>>)

(***************************************************************************)
(* Expression (expression.rs) and the macro's Expr (lib.rs).               *)
(***************************************************************************)
Number(n) == <<"Number", n>>

Variable(name) == <<"Variable", name>>

Add(a, b) == <<"Add", a, b>>

Subtract(a, b) == <<"Subtract", a, b>>

Multiply(a, b) == <<"Multiply", a, b>>

Divide(a, b) == <<"Divide", a, b>>

Power(a, b) == <<"Power", a, b>>

(***************************************************************************)
(* parsing::Parser.  A parser is [tokens, current], current counted from   *)
(* 0 as in the code; a parse function maps a parser to [res, p]: the       *)
(* Result it returns and the parser it leaves behind.                      *)
(***************************************************************************)
new(tokens) == [tokens |-> tokens, current |-> 0]

get(tokens, index) ==
    IF index < Len(tokens) THEN Some(tokens[index + 1]) ELSE None

peek(p) == get(p.tokens, p.current)

advance(p) ==
    [token |-> get(p.tokens, p.current),
     p |-> [p EXCEPT !.current = p.current + 1]]

\* The ? operator on a parse function's outcome r: an Err returns from
\* the caller at once, an Ok hands the parser and the value to the rest
\* of the caller.
Try(r, rest(_, _)) == IF IsErr(r.res) THEN r ELSE rest(r.p, r.res[2])

RECURSIVE parse_expression(_)
RECURSIVE parse_addition(_)
RECURSIVE addition_loop(_, _)
RECURSIVE parse_multiplication(_)
RECURSIVE multiplication_loop(_, _)
RECURSIVE parse_power(_)
RECURSIVE power_loop(_, _)
RECURSIVE parse_primary(_)

parse_expression(p) == parse_addition(p)

parse_addition(p) == Try(parse_multiplication(p), addition_loop)

addition_loop(p, expr) ==
    IF peek(p) = Some(Plus) THEN
        Try(parse_multiplication(advance(p).p),
            LAMBDA q, rhs : addition_loop(q, Add(expr, rhs)))
    ELSE IF peek(p) = Some(Minus) THEN
        Try(parse_multiplication(advance(p).p),
            LAMBDA q, rhs : addition_loop(q, Subtract(expr, rhs)))
    ELSE [res |-> Ok(expr), p |-> p]

parse_multiplication(p) == Try(parse_power(p), multiplication_loop)

\* A multiplication level whose right operands skip the power level.
multiplication_loop_flat(p, expr) ==
    IF peek(p) = Some(Star) THEN
        Try(parse_primary(advance(p).p),
            LAMBDA q, rhs : multiplication_loop(q, Multiply(expr, rhs)))
    ELSE IF peek(p) = Some(Slash) THEN
        Try(parse_primary(advance(p).p),
            LAMBDA q, rhs : multiplication_loop(q, Divide(expr, rhs)))
    ELSE [res |-> Ok(expr), p |-> p]

multiplication_loop(p, expr) ==
    IF peek(p) = Some(Star) THEN
        Try(parse_power(advance(p).p),
            LAMBDA q, rhs : multiplication_loop(q, Multiply(expr, rhs)))
    ELSE IF peek(p) = Some(Slash) THEN
        Try(parse_power(advance(p).p),
            LAMBDA q, rhs : multiplication_loop(q, Divide(expr, rhs)))
    ELSE [res |-> Ok(expr), p |-> p]

parse_power(p) == Try(parse_primary(p), power_loop)

\* A power level that nests to the right, the mathematical convention.
power_loop_right(p, expr) ==
    IF peek(p) = Some(Caret) THEN
        Try(parse_power(advance(p).p),
            LAMBDA q, rhs : [res |-> Ok(Power(expr, rhs)), p |-> q])
    ELSE [res |-> Ok(expr), p |-> p]

power_loop(p, expr) ==
    IF peek(p) = Some(Caret) THEN
        Try(parse_primary(advance(p).p),
            LAMBDA q, rhs : power_loop(q, Power(expr, rhs)))
    ELSE [res |-> Ok(expr), p |-> p]

\* The end of parse_primary's LParen arm: the token after the enclosed
\* expression is consumed and must be the RParen.
expect_rparen(p, expr) ==
    LET close == advance(p)
    IN  IF close.token # Some(RParen)
        THEN [res |-> Err(<<"Expected closing parenthesis">>), p |-> close.p]
        ELSE [res |-> Ok(expr), p |-> close.p]

parse_primary(p) ==
    LET a == advance(p)
    IN  IF a.token = None
        THEN [res |-> Err(<<"Unexpected end of input">>), p |-> a.p]
        ELSE IF a.token[2][1] = "Number"
        THEN [res |-> Ok(Number(a.token[2][2])), p |-> a.p]
        ELSE IF a.token[2][1] = "Variable"
        THEN [res |-> Ok(Variable(a.token[2][2])), p |-> a.p]
        ELSE IF a.token[2] = LParen
        THEN Try(parse_expression(a.p), expect_rparen)
        ELSE [res |-> Err(<<"Unexpected token">>), p |-> a.p]

(***************************************************************************)
(* expression_macro's Parser, which builds an Expr.                        *)
(***************************************************************************)
macro_new(tokens) == [tokens |-> tokens, current |-> 0]

macro_get(tokens, index) ==
    IF index < Len(tokens) THEN Some(tokens[index + 1]) ELSE None

macro_peek(p) == macro_get(p.tokens, p.current)

macro_advance(p) ==
    [token |-> macro_get(p.tokens, p.current),
     p |-> [p EXCEPT !.current = p.current + 1]]

RECURSIVE macro_parse_expression(_)
RECURSIVE macro_parse_addition(_)
RECURSIVE macro_addition_loop(_, _)
RECURSIVE macro_parse_multiplication(_)
RECURSIVE macro_multiplication_loop(_, _)
RECURSIVE macro_parse_power(_)
RECURSIVE macro_power_loop(_, _)
RECURSIVE macro_parse_primary(_)

macro_parse_expression(p) == macro_parse_addition(p)

macro_parse_addition(p) == Try(macro_parse_multiplication(p), macro_addition_loop)

macro_addition_loop(p, expr) ==
    IF macro_peek(p) = Some(Plus) THEN
        Try(macro_parse_multiplication(macro_advance(p).p),
            LAMBDA q, rhs : macro_addition_loop(q, Add(expr, rhs)))
    ELSE IF macro_peek(p) = Some(Minus) THEN
        Try(macro_parse_multiplication(macro_advance(p).p),
            LAMBDA q, rhs : macro_addition_loop(q, Subtract(expr, rhs)))
    ELSE [res |-> Ok(expr), p |-> p]

macro_parse_multiplication(p) == Try(macro_parse_power(p), macro_multiplication_loop)

macro_multiplication_loop(p, expr) ==
    IF macro_peek(p) = Some(Star) THEN
        Try(macro_parse_power(macro_advance(p).p),
            LAMBDA q, rhs : macro_multiplication_loop(q, Multiply(expr, rhs)))
    ELSE IF macro_peek(p) = Some(Slash) THEN
        Try(macro_parse_power(macro_advance(p).p),
            LAMBDA q, rhs : macro_multiplication_loop(q, Divide(expr, rhs)))
    ELSE [res |-> Ok(expr), p |-> p]

macro_parse_power(p) == Try(macro_parse_primary(p), macro_power_loop)

macro_power_loop(p, expr) ==
    IF macro_peek(p) = Some(Caret) THEN
        Try(macro_parse_primary(macro_advance(p).p),
            LAMBDA q, rhs : macro_power_loop(q, Power(expr, rhs)))
    ELSE [res |-> Ok(expr), p |-> p]

\* The end of macro_parse_primary's LParen arm: the token after the enclosed
\* expression is consumed and must be the RParen.
macro_expect_rparen(p, expr) ==
    LET close == macro_advance(p)
    IN  IF close.token = Some(RParen)
        THEN [res |-> Ok(expr), p |-> close.p]
        ELSE [res |-> Err(<<"Expected closing parenthesis">>), p |-> close.p]

macro_parse_primary(p) ==
    LET a == macro_advance(p)
    IN  IF a.token = None
        THEN [res |-> Err(<<"Unexpected end of input">>), p |-> a.p]
        ELSE IF a.token[2][1] = "Number"
        THEN [res |-> Ok(Number(a.token[2][2])), p |-> a.p]
        ELSE IF a.token[2][1] = "Variable"
        THEN [res |-> Ok(Variable(a.token[2][2])), p |-> a.p]
        ELSE IF a.token[2] = LParen
        THEN Try(macro_parse_expression(a.p), macro_expect_rparen)
        ELSE [res |-> Err(<<"Unexpected token">>), p |-> a.p]

\* <Expr as ToTokens>::to_tokens: the Expression that the emitted code
\* constructs once compiled, variant by variant.
RECURSIVE to_tokens(_)
to_tokens(e) ==
    IF e[1] = "Number" THEN Number(e[2])
    ELSE IF e[1] = "Variable" THEN Variable(e[2])
    ELSE IF e[1] = "Add" THEN Add(to_tokens(e[2]), to_tokens(e[3]))
    ELSE IF e[1] = "Subtract" THEN Subtract(to_tokens(e[2]), to_tokens(e[3]))
    ELSE IF e[1] = "Multiply" THEN Multiply(to_tokens(e[2]), to_tokens(e[3]))
    ELSE IF e[1] = "Divide" THEN Divide(to_tokens(e[2]), to_tokens(e[3]))
    ELSE Power(to_tokens(e[2]), to_tokens(e[3]))

\* The expr! procedural macro: Ok(the Expression the expansion builds) or
\* Err(the compile error's message).
expr_macro(expr_str) ==
    LET tokens == macro_tokenize(expr_str)
    IN  IF IsErr(tokens) THEN tokens
        ELSE LET r == macro_parse_expression(macro_new(tokens[2])).res
             IN  IF IsErr(r) THEN r ELSE Ok(to_tokens(r[2]))

(***************************************************************************)
(* Expression::evaluate.  variables is a function from the names it        *)
(* binds to their values.  The result is [res, visited]: the Result        *)
(* returned and, as a history, the sub-expressions evaluate was called     *)
(* on, in call order.                                                      *)
(***************************************************************************)
RECURSIVE evaluate(_, _)

Arith(tag, x, y) ==
    CASE tag = "Add" -> FAdd(x, y)
      [] tag = "Subtract" -> FSub(x, y)
      [] tag = "Multiply" -> FMul(x, y)
      [] tag = "Power" -> powf(x, y)

\* Binary arms that evaluate the right operand before the left one.
evaluate_binary_right_first(e, vs) ==
    LET b == evaluate(e[3], vs)
    IN  IF IsErr(b.res) THEN [res |-> b.res, visited |-> <<e>> \o b.visited]
        ELSE LET a == evaluate(e[2], vs)
                 seen == <<e>> \o b.visited \o a.visited
             IN  IF IsErr(a.res) THEN [res |-> a.res, visited |-> seen]
                 ELSE [res |-> Ok(Arith(e[1], a.res[2], b.res[2])),
                       visited |-> seen]

\* The Add, Subtract, Multiply and Power arms: a.evaluate(variables)? op
\* b.evaluate(variables)?.
evaluate_binary(e, vs) ==
    LET a == evaluate(e[2], vs)
    IN  IF IsErr(a.res) THEN [res |-> a.res, visited |-> <<e>> \o a.visited]
        ELSE LET b == evaluate(e[3], vs)
                 seen == <<e>> \o a.visited \o b.visited
             IN  IF IsErr(b.res) THEN [res |-> b.res, visited |-> seen]
                 ELSE [res |-> Ok(Arith(e[1], a.res[2], b.res[2])),
                       visited |-> seen]

\* A Divide arm without the test of the denominator.
evaluate_divide_unchecked(e, vs) ==
    LET b == evaluate(e[3], vs)
    IN  IF IsErr(b.res) THEN [res |-> b.res, visited |-> <<e>> \o b.visited]
        ELSE LET a == evaluate(e[2], vs)
                 seen == <<e>> \o b.visited \o a.visited
             IN  IF IsErr(a.res) THEN [res |-> a.res, visited |-> seen]
                 ELSE [res |-> Ok(FDiv(a.res[2], b.res[2])),
                       visited |-> seen]

\* The Divide arm.
evaluate_divide(e, vs) ==
    LET b == evaluate(e[3], vs)
    IN  IF IsErr(b.res) THEN [res |-> b.res, visited |-> <<e>> \o b.visited]
        ELSE IF b.res[2] = Zero
        THEN [res |-> Err(<<"Division by 0">>), visited |-> <<e>> \o b.visited]
        ELSE LET a == evaluate(e[2], vs)
                 seen == <<e>> \o b.visited \o a.visited
             IN  IF IsErr(a.res) THEN [res |-> a.res, visited |-> seen]
                 ELSE [res |-> Ok(FDiv(a.res[2], b.res[2])),
                       visited |-> seen]

evaluate(e, vs) ==
    IF e[1] = "Number" THEN [res |-> Ok(e[2]), visited |-> <<e>>]
    ELSE IF e[1] = "Variable" THEN
        [res |-> IF e[2] \in DOMAIN vs THEN Ok(vs[e[2]])
                 ELSE Err(<<"Variable '", e[2], "' not found">>),
         visited |-> <<e>>]
    ELSE IF e[1] = "Divide" THEN evaluate_divide(e, vs)
    ELSE evaluate_binary(e, vs)

\* Expression::parse: [res, p] with p the parser the call drops on return
\* (NoParser when tokenize fails and no parser is built).
parse(s) ==
    LET tokens == tokenize(s)
    IN  IF IsErr(tokens) THEN [res |-> tokens, p |-> NoParser]
        ELSE parse_expression(new(tokens[2]))

(***************************************************************************)
(* Inputs.                                                                 *)
(***************************************************************************)
SeqsUpTo(S, n) == UNION {[1..k -> S] : k \in 0..n}

\* The characters input strings are made of, one or more of every class
\* the tokenizers tell apart, '@' standing for the characters they reject.
Alphabet ==
    {" ", "\n", "1", ".", "x", "+", "-", "*", "/", "^", "(", ")", "@"}

Two == <<2, 1>>

Three == <<3, 1>>

X == <<"x">>

Y == <<"y">>

\* The tokens a token vector handed to Parser::new is made of.
TokenAlphabet ==
    {TNumber(Two), TNumber(Three), TVariable(X),
     Plus, Minus, Star, Slash, Caret, LParen, RParen}

BinaryOps == {"Add", "Subtract", "Multiply", "Divide", "Power"}

\* The Expressions with exactly n leaves taken from leaves, as the builder
\* API (expr::number, expr::variable, expr::add, ...) constructs them.
RECURSIVE TreesOf(_, _)
TreesOf(leaves, n) ==
    IF n = 1 THEN leaves
    ELSE UNION {{<<op, a, b>> : op \in BinaryOps,
                                a \in TreesOf(leaves, k),
                                b \in TreesOf(leaves, n - k)} : k \in 1..(n - 1)}

\* The precedence level of the production that yields an Expression:
\* addition 1, multiplication 2, power 3, primary 4.
Level(e) ==
    IF e[1] \in {"Add", "Subtract"} THEN 1
    ELSE IF e[1] \in {"Multiply", "Divide"} THEN 2
    ELSE IF e[1] = "Power" THEN 3
    ELSE 4

OpToken(tag) ==
    CASE tag = "Add" -> Plus [] tag = "Subtract" -> Minus
      [] tag = "Multiply" -> Star [] tag = "Divide" -> Slash
      [] tag = "Power" -> Caret

\* The token sequence that writes an Expression in the grammar of the
\* spec's 4.2: an operand is parenthesized exactly when the production for
\* its position cannot yield it (a left operand of a lower level than its
\* operator, a right operand of a level not above it).
RECURSIVE Write(_)
Write(e) ==
    IF Level(e) = 4 THEN <<e>>
    ELSE LET wrap(c, min) ==
                 IF Level(c) < min THEN <<LParen>> \o Write(c) \o <<RParen>>
                 ELSE Write(c)
         IN  wrap(e[2], Level(e)) \o <<OpToken(e[1])>> \o wrap(e[3], Level(e) + 1)

OperandLeaves == {Number(Two), Number(Three), Variable(X)}

EvalLeaves == {Number(Zero), Variable(X), Variable(Y)}

RECURSIVE LeafCount(_)
LeafCount(e) ==
    IF Level(e) = 4 THEN 1 ELSE LeafCount(e[2]) + LeafCount(e[3])

\* The Expressions a builder call takes as its other argument, by their
\* number of leaves.
EvalOperands == [k \in 1..(MaxLeaves - 1) |-> TreesOf(EvalLeaves, k)]

PartialFunctions(D, R) == UNION {[S -> R] : S \in SUBSET D}

\* The variable maps an evaluation is run against.
Environments == PartialFunctions({X, Y}, {Zero, One})

TextEnvironments == PartialFunctions({X}, {One})

(***************************************************************************)
(* Operations.                                                             *)
(***************************************************************************)
\* parsing::tokenize called on the input string.
Tokenize ==
    /\ pc = "start"
    /\ lexed' = tokenize(input)
    /\ pc' = "lexed"
    /\ UNCHANGED <<input, parser, parsed, expanded, tree, variables, value, visited,
                 stack, ret>>

\* Parser::new(tokens).parse_expression() on a token vector.
ParseTokens ==
    /\ pc = "lexed"
    /\ IsOk(lexed)
    /\ LET r == parse_expression(new(lexed[2]))
       IN  /\ parser' = r.p
           /\ parsed' = r.res
    /\ pc' = "parsed"
    /\ UNCHANGED <<input, lexed, expanded, tree, variables, value, visited,
                 stack, ret>>

\* Expression::parse(input).
ExpressionParse ==
    /\ pc = "start"
    /\ LET r == parse(input)
       IN  /\ parser' = r.p
           /\ parsed' = r.res
    /\ pc' = "parsed"
    /\ UNCHANGED <<input, lexed, expanded, tree, variables, value, visited,
                 stack, ret>>

\* expr!(input), expanded at compile time.
ExprMacro ==
    /\ \/ pc = "parsed"
       \/ pc = "lexed" /\ IsErr(lexed)
    /\ expanded' = expr_macro(input)
    /\ pc' = "expanded"
    /\ UNCHANGED <<input, lexed, parser, parsed, tree, variables, value, visited,
                 stack, ret>>

\* evaluate called on the parsed Expression.
EvaluateParsed ==
    /\ pc = "parsed"
    /\ IsOk(parsed)
    /\ \E vs \in TextEnvironments :
         LET r == evaluate(parsed[2], vs)
         IN  /\ tree' = parsed[2]
             /\ variables' = vs
             /\ value' = r.res
             /\ visited' = r.visited
    /\ pc' = "evaluated"
    /\ UNCHANGED <<input, lexed, parser, parsed, expanded,
                 stack, ret>>

\* expr::add, subtract, multiply, divide or power called on the Expression
\* built so far and another one, in either order.
Build ==
    /\ pc = "built"
    /\ \E k \in 1..(MaxLeaves - LeafCount(tree)) :
         \E op \in BinaryOps, other \in EvalOperands[k] :
            \/ tree' = <<op, tree, other>>
            \/ tree' = <<op, other, tree>>
    /\ UNCHANGED <<pc, input, lexed, parser, parsed, expanded, variables,
                   value, visited,
                 stack, ret>>

\* evaluate called on an Expression made with the builder API.
Evaluate ==
    /\ pc = "built"
    /\ \E vs \in Environments :
         LET r == evaluate(tree, vs)
         IN  /\ variables' = vs
             /\ value' = r.res
             /\ visited' = r.visited
    /\ pc' = "evaluated"
    /\ UNCHANGED <<input, lexed, parser, parsed, expanded, tree,
                 stack, ret>>

(***************************************************************************)
(* Spec: an input string through the runtime pipeline and through expr!.   *)
(***************************************************************************)
Init ==
    /\ pc = "start"
    /\ input \in SeqsUpTo(Alphabet, MaxLen)
    /\ lexed = Unset
    /\ parser = NoParser
    /\ parsed = Unset
    /\ expanded = Unset
    /\ tree = Unset
    /\ variables = Unset
    /\ value = Unset
    /\ visited = Unset
    /\ stack = <<>>
    /\ ret = Unset

Next ==
    \/ Tokenize
    \/ ParseTokens
    \/ ExpressionParse
    \/ ExprMacro
    \/ EvaluateParsed

Spec == Init /\ [][Next]_vars

(***************************************************************************)
(* SpecParse: the parser on a token vector: any vector of at most          *)
(* MaxTokens tokens, or an Expression of at most MaxLeaves leaves written  *)
(* out in the grammar.                                                     *)
(***************************************************************************)
InitParse ==
    /\ pc = "lexed"
    /\ input = Unset
    /\ \/ \E k \in 0..MaxTokens :
            \E ts \in [1..k -> TokenAlphabet] : lexed = Ok(ts)
       \/ \E n \in 2..MaxLeaves, k \in 1..(MaxLeaves - 1) :
            /\ k < n
            /\ \E op \in BinaryOps, a \in TreesOf(OperandLeaves, k),
                  b \in TreesOf(OperandLeaves, n - k) :
                  lexed = Ok(Write(<<op, a, b>>))
    /\ parser = NoParser
    /\ parsed = Unset
    /\ expanded = Unset
    /\ tree = Unset
    /\ variables = Unset
    /\ value = Unset
    /\ visited = Unset
    /\ stack = <<>>
    /\ ret = Unset

NextParse == ParseTokens

SpecParse == InitParse /\ [][NextParse]_vars

(***************************************************************************)
(* SpecEval: an Expression is built with the builder API, starting from   *)
(* expr::number or expr::variable, and evaluated.                          *)
(***************************************************************************)
InitEval ==
    /\ pc = "built"
    /\ input = Unset
    /\ lexed = Unset
    /\ parser = NoParser
    /\ parsed = Unset
    /\ expanded = Unset
    /\ tree \in EvalLeaves
    /\ variables = Unset
    /\ value = Unset
    /\ visited = Unset
    /\ stack = <<>>
    /\ ret = Unset

NextEval ==
    \/ Build
    \/ Evaluate

SpecEval == InitEval /\ [][NextEval]_vars

(***************************************************************************)
(* SpecSteps: one parse, statement by statement.  The call stack of the    *)
(* recursive descent is explicit: a frame is <<fn, at, expr, op>>, the     *)
(* function, the place in its body, its local `expr` and, while the right  *)
(* operand of a binary operator is being parsed, the variant to build.     *)
(* ret holds the Result a callee has just returned, Unset otherwise.       *)
(***************************************************************************)
MaxStepTokens == 3

Frame(fn, at, expr, op) == <<fn, at, expr, op>>

Top == stack[Len(stack)]

Pop == SubSeq(stack, 1, Len(stack) - 1)

\* The top frame moves on to `at` with its locals set.
Goto(at, expr, op) == Append(Pop, Frame(Top[1], at, expr, op))

\* A call: the callee's frame is pushed on the caller's.
Call(callers, fn) == Append(callers, Frame(fn, "entry", Unset, ""))

Running(fn, at) ==
    /\ pc = "parsing"
    /\ stack # <<>>
    /\ Top[1] = fn
    /\ Top[2] = at

\* The function a level of the descent calls for its operands, and the
\* variant it builds for an operator token ("" when the token is not one
\* of its operators).
Operand(fn) ==
    CASE fn = "parse_addition" -> "parse_multiplication"
      [] fn = "parse_multiplication" -> "parse_power"
      [] fn = "parse_power" -> "parse_primary"

Variant(fn, token) ==
    CASE fn = "parse_addition" /\ token = Some(Plus) -> "Add"
      [] fn = "parse_addition" /\ token = Some(Minus) -> "Subtract"
      [] fn = "parse_multiplication" /\ token = Some(Star) -> "Multiply"
      [] fn = "parse_multiplication" /\ token = Some(Slash) -> "Divide"
      [] fn = "parse_power" /\ token = Some(Caret) -> "Power"
      [] OTHER -> ""

\* Parser::new(tokens) and the call of parse_expression.
BeginParse ==
    /\ pc = "lexed"
    /\ IsOk(lexed)
    /\ parser' = new(lexed[2])
    /\ stack' = Call(<<>>, "parse_expression")
    /\ pc' = "parsing"
    /\ UNCHANGED <<input, lexed, parsed, expanded, tree, variables, value,
                   visited, ret>>

\* parse_expression: self.parse_addition(), whose Result it returns.
ParseExpressionStep ==
    \/ /\ Running("parse_expression", "entry")
       /\ stack' = Call(Goto("called", Unset, ""), "parse_addition")
       /\ UNCHANGED <<pc, input, lexed, parser, parsed, expanded, tree,
                      variables, value, visited, ret>>
    \/ /\ Running("parse_expression", "called")
       /\ ret # Unset
       /\ stack' = Pop
       /\ UNCHANGED <<pc, input, lexed, parser, parsed, expanded, tree,
                      variables, value, visited, ret>>

\* One statement of parse_addition, parse_multiplication or parse_power:
\* the call for the first operand; `let mut expr = ...?`; the loop test,
\* which on one of the level's operators advances and calls for the right
\* operand and otherwise returns Ok(expr); `expr = Variant(expr, ...?)`.
LevelStep(fn) ==
    \/ /\ Running(fn, "entry")
       /\ stack' = Call(Goto("first", Unset, ""), Operand(fn))
       /\ UNCHANGED <<parser, ret>>
    \/ /\ Running(fn, "first")
       /\ ret # Unset
       /\ IF IsErr(ret)
          THEN stack' = Pop /\ ret' = ret
          ELSE stack' = Goto("loop", ret[2], "") /\ ret' = Unset
       /\ UNCHANGED parser
    \/ /\ Running(fn, "loop")
       /\ IF Variant(fn, peek(parser)) # ""
          THEN /\ parser' = advance(parser).p
               /\ stack' = Call(Goto("rhs", Top[3], Variant(fn, peek(parser))),
                                Operand(fn))
               /\ ret' = ret
          ELSE /\ parser' = parser
               /\ stack' = Pop
               /\ ret' = Ok(Top[3])
    \/ /\ Running(fn, "rhs")
       /\ ret # Unset
       /\ IF IsErr(ret)
          THEN stack' = Pop /\ ret' = ret
          ELSE /\ stack' = Goto("loop", <<Top[4], Top[3], ret[2]>>, "")
               /\ ret' = Unset
       /\ UNCHANGED parser

ParseAdditionStep ==
    /\ LevelStep("parse_addition")
    /\ UNCHANGED <<pc, input, lexed, parsed, expanded, tree, variables,
                   value, visited>>

ParseMultiplicationStep ==
    /\ LevelStep("parse_multiplication")
    /\ UNCHANGED <<pc, input, lexed, parsed, expanded, tree, variables,
                   value, visited>>

ParsePowerStep ==
    /\ LevelStep("parse_power")
    /\ UNCHANGED <<pc, input, lexed, parsed, expanded, tree, variables,
                   value, visited>>

\* A parse_primary that takes the end of input for a closing parenthesis.
ParsePrimaryClose_lenient ==
    /\ Running("parse_primary", "close")
    /\ LET a == advance(parser)
       IN  /\ parser' = a.p
           /\ stack' = Pop
           /\ ret' = IF a.token # Some(RParen) /\ a.token # None
                     THEN Err(<<"Expected closing parenthesis">>)
                     ELSE Ok(Top[3])

\* The end of parse_primary's LParen arm: `if self.advance() !=
\* Some(&Token::RParen) { return Err(...) }  Ok(expr)`.
ParsePrimaryClose ==
    /\ Running("parse_primary", "close")
    /\ LET a == advance(parser)
       IN  /\ parser' = a.p
           /\ stack' = Pop
           /\ ret' = IF a.token # Some(RParen)
                     THEN Err(<<"Expected closing parenthesis">>)
                     ELSE Ok(Top[3])

\* A parse_primary that reports the end of input as a token.
ParsePrimaryEntry_no_eof ==
    /\ Running("parse_primary", "entry")
    /\ LET a == advance(parser)
       IN  /\ parser' = a.p
           /\ IF a.token = None
              THEN stack' = Pop /\ ret' = Err(<<"Unexpected token">>)
              ELSE IF a.token[2][1] = "Number"
              THEN stack' = Pop /\ ret' = Ok(Number(a.token[2][2]))
              ELSE IF a.token[2][1] = "Variable"
              THEN stack' = Pop /\ ret' = Ok(Variable(a.token[2][2]))
              ELSE IF a.token[2] = LParen
              THEN /\ stack' = Call(Goto("inner", Unset, ""),
                                    "parse_expression")
                   /\ ret' = ret
              ELSE stack' = Pop /\ ret' = Err(<<"Unexpected token">>)

\* The first statement of parse_primary, `self.advance().ok_or(...)?`, and
\* the match on the token.
ParsePrimaryEntry ==
    /\ Running("parse_primary", "entry")
    /\ LET a == advance(parser)
       IN  /\ parser' = a.p
           /\ IF a.token = None
              THEN stack' = Pop /\ ret' = Err(<<"Unexpected end of input">>)
              ELSE IF a.token[2][1] = "Number"
              THEN stack' = Pop /\ ret' = Ok(Number(a.token[2][2]))
              ELSE IF a.token[2][1] = "Variable"
              THEN stack' = Pop /\ ret' = Ok(Variable(a.token[2][2]))
              ELSE IF a.token[2] = LParen
              THEN /\ stack' = Call(Goto("inner", Unset, ""),
                                    "parse_expression")
                   /\ ret' = ret
              ELSE stack' = Pop /\ ret' = Err(<<"Unexpected token">>)

\* A parse_primary that backtracks to the start of the tokens when the
\* enclosed expression fails.
ParsePrimaryInner_rewind ==
    /\ Running("parse_primary", "inner")
    /\ ret # Unset
    /\ IF IsErr(ret)
       THEN stack' = Pop /\ ret' = ret /\ parser' = new(parser.tokens)
       ELSE /\ stack' = Goto("close", ret[2], "") /\ ret' = Unset
            /\ parser' = parser

\* `let expr = self.parse_expression()?` of the LParen arm.
ParsePrimaryInner ==
    /\ Running("parse_primary", "inner")
    /\ ret # Unset
    /\ IF IsErr(ret)
       THEN stack' = Pop /\ ret' = ret
       ELSE stack' = Goto("close", ret[2], "") /\ ret' = Unset
    /\ UNCHANGED parser

ParsePrimaryStep ==
    /\ \/ ParsePrimaryEntry
       \/ ParsePrimaryInner
       \/ ParsePrimaryClose
    /\ UNCHANGED <<pc, input, lexed, parsed, expanded, tree, variables,
                   value, visited>>

\* parse_expression has returned to the caller of the parser.
EndParse ==
    /\ pc = "parsing"
    /\ stack = <<>>
    /\ ret # Unset
    /\ parsed' = ret
    /\ pc' = "parsed"
    /\ UNCHANGED <<input, lexed, parser, expanded, tree, variables, value,
                   visited, stack, ret>>

\* The token vector of the unit test test_parse_unmatched_parentheses.
UnmatchedParentheses == <<LParen, TNumber(Two), Plus, TNumber(Three)>>

\* A parse starts on any vector of at most MaxStepTokens tokens or on the
\* unit test's vector.
InitSteps ==
    /\ pc = "lexed"
    /\ input = Unset
    /\ \/ \E k \in 0..MaxStepTokens :
            \E ts \in [1..k -> TokenAlphabet] : lexed = Ok(ts)
       \/ lexed = Ok(UnmatchedParentheses)
    /\ parser = NoParser
    /\ parsed = Unset
    /\ expanded = Unset
    /\ tree = Unset
    /\ variables = Unset
    /\ value = Unset
    /\ visited = Unset
    /\ stack = <<>>
    /\ ret = Unset

NextSteps ==
    \/ BeginParse
    \/ ParseExpressionStep
    \/ ParseAdditionStep
    \/ ParseMultiplicationStep
    \/ ParsePowerStep
    \/ ParsePrimaryStep
    \/ EndParse

SpecSteps == InitSteps /\ [][NextSteps]_vars

\* The parser runs to its return: it is one sequential computation.
FairSpecSteps == SpecSteps /\ WF_vars(NextSteps)

TypeOK ==
    /\ pc \in {"start", "lexed", "parsing", "parsed", "expanded", "built",
              "evaluated"}
    /\ value[1] \in {"Unset"} \/ value[1] \in {"Ok", "Err"}

(***************************************************************************)
(* Properties.                                                             *)
(***************************************************************************)
\* No evaluation within the bounds meets the case powf has no rational
\* value for.
EvaluateExact == pc = "evaluated" /\ IsOk(value) => value[2] # Inexact

\* The statement-by-statement parse returns what the descent functions
\* return and leaves the parser they leave.
StepsAgree ==
    pc = "parsed" /\ ret # Unset
        => LET r == parse_expression(new(lexed[2]))
           IN  parsed = r.res /\ parser = r.p

\* The state is the return of Expression::parse on a string that tokenized.
ExpressionParsed == pc = "parsed" /\ lexed = Unset /\ parser # NoParser

\* C1: Expression::parse returns an error whenever tokens remain
\* unconsumed after the top-level expression; it returns Ok only when the
\* cursor has reached the end of the token sequence.
C1_TrailingTokensRejected ==
    ExpressionParsed /\ IsOk(parsed) => parser.current = Len(parser.tokens)

Fail == <<"Fail">>

IsOperand(t) == t[1] \in {"Number", "Variable"}

RECURSIVE ParenDepth(_, _)
ParenDepth(ts, n) ==
    IF n = 0 THEN 0
    ELSE ParenDepth(ts, n - 1)
           + (IF ts[n] = LParen THEN 1 ELSE IF ts[n] = RParen THEN -1 ELSE 0)

SetMax(S) == CHOOSE m \in S : \A n \in S : n <= m

SetMin(S) == CHOOSE m \in S : \A n \in S : m <= n

TagOf(t) ==
    CASE t = Plus -> "Add" [] t = Minus -> "Subtract"
      [] t = Star -> "Multiply" [] t = Slash -> "Divide"
      [] t = Caret -> "Power"

\* The reading of a token sequence under the precedence table of the
\* spec's 4.2, by splitting instead of by descent: the sequence splits at
\* its last operator of the lowest level that stands outside all
\* parentheses; a sequence without such an operator is one operand or a
\* parenthesized sequence.  Fail when the grammar does not generate it.
RECURSIVE Reading(_)
Reading(ts) ==
    LET n == Len(ts)
        at(ops) == {i \in 1..n : ts[i] \in ops /\ ParenDepth(ts, i - 1) = 0}
        split(i) ==
            LET l == Reading(SubSeq(ts, 1, i - 1))
                r == Reading(SubSeq(ts, i + 1, n))
            IN  IF l = Fail \/ r = Fail THEN Fail
                ELSE <<TagOf(ts[i]), l, r>>
    IN  IF at({Plus, Minus}) # {} THEN split(SetMax(at({Plus, Minus})))
        ELSE IF at({Star, Slash}) # {} THEN split(SetMax(at({Star, Slash})))
        ELSE IF at({Caret}) # {} THEN split(SetMax(at({Caret})))
        ELSE IF n = 1 /\ IsOperand(ts[1]) THEN ts[1]
        ELSE IF n >= 3 /\ ts[1] = LParen /\ ts[n] = RParen
        THEN Reading(SubSeq(ts, 2, n - 1))
        ELSE Fail

\* C2: for every token sequence the grammar generates, parse_expression
\* succeeds, consumes all tokens, and builds the tree in which ^ binds
\* tighter than * and /, which bind tighter than + and -, a parenthesized
\* sub-expression being one operand.
C2_GrammarParsedByPrecedence ==
    pc = "parsed" /\ input = Unset /\ Reading(lexed[2]) # Fail
        => /\ parsed = Ok(Reading(lexed[2]))
           /\ parser.current = Len(lexed[2])

C2_Witness ==
    /\ pc = "parsed"
    /\ lexed = Ok(<<LParen, TNumber(Two), Plus, TNumber(Three), RParen, Star,
                    TVariable(X)>>)
    /\ parsed = Ok(Multiply(Add(Number(Two), Number(Three)), Variable(X)))
    /\ parser.current = 7

LevelOps == {{Plus, Minus}, {Star, Slash}, {Caret}}

\* operand (op operand)* with every op of one level.
IsChain(ts) ==
    /\ Len(ts) % 2 = 1
    /\ \A i \in 1..Len(ts) : i % 2 = 1 => IsOperand(ts[i])
    /\ \E ops \in LevelOps : \A i \in 1..Len(ts) : i % 2 = 0 => ts[i] \in ops

\* op(...op(op(p1, p2), p3)..., pn) of the chain's first 2k - 1 tokens.
RECURSIVE LeftNested(_, _)
LeftNested(ts, k) ==
    IF k = 1 THEN ts[1]
    ELSE <<TagOf(ts[2 * k - 2]), LeftNested(ts, k - 1), ts[2 * k - 1]>>

\* C3: every chain of operators of one precedence level is parsed
\* left-nested, ^ included.
C3_ChainsLeftNested ==
    pc = "parsed" /\ input = Unset /\ IsChain(lexed[2])
        => parsed = Ok(LeftNested(lexed[2], (Len(lexed[2]) + 1) \div 2))

Sixtyfour == <<64, 1>>

C3_Witness ==
    /\ pc = "parsed"
    /\ lexed = Ok(<<TNumber(Two), Caret, TNumber(Three), Caret, TNumber(Two)>>)
    /\ parsed = Ok(Power(Power(Number(Two), Number(Three)), Number(Two)))
    /\ evaluate(parsed[2], <<>>).res = Ok(Sixtyfour)

NotFound(name) == Err(<<"Variable '", name, "' not found">>)

\* C4: for Add, Subtract and Multiply, evaluate evaluates the left child
\* first and, if it fails, returns that error without evaluating the right
\* child; a Variable absent from the environment fails with the
\* unknown-variable error naming it.
C4_LeftErrorShortCircuits ==
    pc = "evaluated" =>
        /\ tree[1] \in {"Add", "Subtract", "Multiply"}
           /\ IsErr(evaluate(tree[2], variables).res)
             => /\ value = evaluate(tree[2], variables).res
                /\ visited = <<tree>> \o evaluate(tree[2], variables).visited
        /\ tree[1] = "Variable" /\ tree[2] \notin DOMAIN variables
             => value = NotFound(tree[2])

C4_Witness ==
    /\ pc = "evaluated"
    /\ tree = Add(Variable(X), Variable(Y))
    /\ DOMAIN variables = {}
    /\ value = NotFound(X)
    /\ visited = <<tree, Variable(X)>>

\* C5: for Divide(a, b) with b evaluating to exactly 0, evaluate returns
\* the division-by-zero error and never a number; with b evaluating to a
\* non-zero value and a evaluating successfully, it returns
\* value(a) / value(b).
C5_DivisionByZero ==
    pc = "evaluated" /\ tree[1] = "Divide" =>
        LET a == evaluate(tree[2], variables).res
            b == evaluate(tree[3], variables).res
        IN  /\ b = Ok(Zero) => value = Err(<<"Division by 0">>)
            /\ IsOk(b) /\ b # Ok(Zero) /\ IsOk(a)
                 => value = Ok(FDiv(a[2], b[2]))

C5_Witness ==
    /\ pc = "evaluated"
    /\ tree = Divide(Variable(X), Subtract(Variable(Y), Variable(X)))
    /\ variables = [n \in {X, Y} |-> One]
    /\ value = Err(<<"Division by 0">>)

\* C6: Divide evaluates its operands left-then-right: whenever the left
\* operand of a Divide fails to evaluate, the error returned is the left
\* operand's, also when the right operand would fail or evaluate to 0.
C6_DivideLeftErrorFirst ==
    pc = "evaluated" /\ tree[1] = "Divide"
      /\ IsErr(evaluate(tree[2], variables).res)
        => value = evaluate(tree[2], variables).res

Whitespace == {" ", "\t", "\r"}

\* Position p of s, between s[p] and s[p + 1], is not inside a number or
\* a name.
BetweenLexemes(s, p) ==
    ~ /\ 1 <= p
      /\ p < Len(s)
      /\ \/ {s[p], s[p + 1]} \subseteq Digits \cup {"."}
         \/ {s[p], s[p + 1]} \subseteq Letters

InsertAt(s, p, t) == SubSeq(s, 1, p) \o t \o SubSeq(s, p + 1, Len(s))

MaxInsert == 2

\* C7: tokenize is whitespace-insensitive: space, tab and carriage return
\* inserted before the first lexeme, after the last one or between two
\* lexemes leave the result unchanged, and whitespace produces no token.
C7_WhitespaceInsensitive ==
    pc = "lexed" /\ input # Unset =>
        /\ \A p \in 0..Len(input) :
             BetweenLexemes(input, p)
               => \A t \in SeqsUpTo(Whitespace, MaxInsert) :
                    tokenize(InsertAt(input, p, t)) = lexed
        /\ (\A i \in 1..Len(input) : input[i] \in Whitespace)
             => lexed = Ok(<<>>)

C7_Witness ==
    /\ pc = "lexed"
    /\ input = <<"x", "+", "1">>
    /\ lexed = Ok(<<TVariable(X), Plus, TNumber(One)>>)
    /\ tokenize(<<" ", "x", "\t", " ", "+", "\r", "1", " ">>) = lexed

\* s with every newline replaced by a space.
Blank(s) == [i \in 1..Len(s) |-> IF s[i] = "\n" THEN " " ELSE s[i]]

HasNewline(s) == \E i \in 1..Len(s) : s[i] = "\n"

\* C8 as stated: the runtime tokenizer skips a newline as whitespace,
\* while the compile-time tokenizer does not skip newline.
C8_RuntimeSkipsNewline ==
    pc = "lexed" /\ input # Unset /\ HasNewline(input)
        => /\ lexed = tokenize(Blank(input))
           /\ IsErr(macro_tokenize(input))

\* C8 as amended: the compile-time tokenizer skips a newline as whitespace
\* (an input with newlines tokenizes, and expands, as with spaces in their
\* place), while the runtime tokenizer does not: it fails on an input that
\* holds a newline, with the unexpected-character error naming the newline
\* when the input has no other fault.
C8_MacroSkipsNewline ==
    /\ pc = "expanded" =>
         /\ macro_tokenize(input) = macro_tokenize(Blank(input))
         /\ expanded = expr_macro(Blank(input))
    /\ pc = "lexed" /\ input # Unset /\ HasNewline(input) =>
         /\ IsErr(lexed)
         /\ IsOk(tokenize(Blank(input)))
              => lexed = Err(<<"Unexpected character: ", "\n">>)

C8_Witness ==
    /\ pc = "expanded"
    /\ input = <<"1", "\n", "x">>
    /\ lexed = Err(<<"Unexpected character: ", "\n">>)
    /\ macro_tokenize(input) = Ok(<<TNumber(One), TVariable(X)>>)
    /\ expanded = Ok(Number(One))

\* What the runtime pipeline returned: tokenize's error, or the result of
\* parse_expression.
RuntimeResult == IF parsed # Unset THEN parsed ELSE lexed

\* C9: expr! and the runtime pipeline agree on every input string: both
\* succeed with the same Expression, or both fail with the same message.
C9_MacroEquivalentToRuntime == pc = "expanded" => expanded = RuntimeResult

OpChars == {"+", "-", "*", "/", "^", "(", ")"}

NumChars == Digits \cup {"."}

\* A maximal run of characters of class starts at i / ends at j.
RunStart(s, i, class) == s[i] \in class /\ (i = 1 \/ s[i - 1] \notin class)

RunEnd(s, i, class) ==
    SetMin({j \in i..Len(s) : j = Len(s) \/ s[j + 1] \notin class})

RunAt(s, i, class) == SubSeq(s, i, RunEnd(s, i, class))

BadChar(s, i) ==
    s[i] \notin Whitespace \cup Digits \cup {"."} \cup Letters \cup OpChars

BadNumber(s, i) ==
    /\ RunStart(s, i, NumChars)
    /\ LET run == RunAt(s, i, NumChars)
       IN  \/ Cardinality({k \in 1..Len(run) : run[k] = "."}) > 1
           \/ \A k \in 1..Len(run) : run[k] = "."

Faults(s) == {i \in 1..Len(s) : BadChar(s, i) \/ BadNumber(s, i)}

LexemeStarts(s) ==
    {i \in 1..Len(s) : \/ s[i] \in OpChars
                       \/ RunStart(s, i, NumChars)
                       \/ RunStart(s, i, Letters)}

CharToken(c) ==
    CASE c = "+" -> Plus [] c = "-" -> Minus [] c = "*" -> Star
      [] c = "/" -> Slash [] c = "^" -> Caret [] c = "(" -> LParen
      [] c = ")" -> RParen

LexemeToken(s, i) ==
    IF s[i] \in OpChars THEN CharToken(s[i])
    ELSE IF s[i] \in Letters THEN TVariable(RunAt(s, i, Letters))
    ELSE TNumber(parse_f64(RunAt(s, i, NumChars))[2])

\* The k-th smallest element of S.
Nth(S, k) == CHOOSE i \in S : Cardinality({j \in S : j < i}) = k - 1

\* What C10 says tokenize returns.
Lexed(s) ==
    IF Faults(s) # {} THEN
        LET i == SetMin(Faults(s))
        IN  IF BadChar(s, i) THEN Err(<<"Unexpected character: ", s[i]>>)
            ELSE Err(<<"Invalid number">>)
    ELSE Ok([k \in 1..Cardinality(LexemeStarts(s)) |->
                LexemeToken(s, Nth(LexemeStarts(s), k))])

\* C10: tokenize fails exactly when the scan reaches a fault, the leftmost
\* fault deciding the error: a character outside the classes gives
\* 'Unexpected character' naming it, a maximal run of digits and '.' that
\* is no float literal gives the number-format error; otherwise it returns
\* the tokens in input order, with no end-of-input token.
C10_LeftmostFaultDecides == pc = "lexed" /\ input # Unset => lexed = Lexed(input)

C10_Witness ==
    /\ pc = "lexed"
    /\ input = <<".", ".", "@">>
    /\ Faults(input) = {1, 3}
    /\ lexed = Err(<<"Invalid number">>)

\* parse_primary has consumed a '(' and the enclosed expression has
\* parsed: its frame stands before the test of the closing parenthesis.
AtClose == Running("parse_primary", "close")

ExpectedClosing == Err(<<"Expected closing parenthesis">>)

\* Every '(' among the first n tokens is closed by a ')' among them.
Matched(ts, n) ==
    /\ n <= Len(ts)
    /\ ParenDepth(ts, n) = 0
    /\ \A i \in 0..n : ParenDepth(ts, i) >= 0

\* C11: when the parser has consumed a '(' and the enclosed expression has
\* parsed, but the next token is absent or is not ')', the parse fails
\* with 'Expected closing parenthesis'; and a parse that returns Ok has
\* consumed a matching ')' for every '(' it consumed.
C11_ClosingParenthesisRequired ==
    /\ (AtClose /\ peek(parser) # Some(RParen))
           ~> (pc = "parsed" /\ parsed = ExpectedClosing)
    /\ [](pc = "parsed" /\ IsOk(parsed)
              => Matched(parser.tokens, parser.current))

C11_Witness ==
    /\ pc = "parsed"
    /\ lexed = Ok(UnmatchedParentheses)
    /\ stack = <<>>
    /\ parsed = ExpectedClosing
    /\ parser.current = 5

Operators == {Plus, Minus, Star, Slash, Caret}

\* An operand is required: the parse is under way without an error and
\* the cursor stands at the start, after a binary operator or after '('.
OperandRequired ==
    /\ pc = "parsing"
    /\ ret = Unset
    /\ \/ parser.current = 0
       \/ /\ parser.current \in 1..Len(parser.tokens)
          /\ parser.tokens[parser.current] \in Operators \cup {LParen}

\* No operator among the first n tokens stands where an operand is
\* required.
NoUnarySign(ts, n) ==
    \A i \in 1..n :
        ts[i] \in Operators
            => i > 1 /\ ts[i - 1] \notin Operators \cup {LParen}

\* C12: wherever an operand is required (at the start, after a binary
\* operator, after '('), the parse fails with 'Unexpected end of input'
\* if no token remains and with 'Unexpected token' if the next token is
\* an operator or ')'; the empty sequence, "2 +", "+ 2" and "- x" fail,
\* and no parse that returns Ok has consumed an operator as a sign.
C12_OperandRequired ==
    /\ (OperandRequired /\ peek(parser) = None)
           ~> (pc = "parsed" /\ parsed = Err(<<"Unexpected end of input">>))
    /\ (OperandRequired
            /\ \E t \in Operators \cup {RParen} : peek(parser) = Some(t))
           ~> (pc = "parsed" /\ parsed = Err(<<"Unexpected token">>))
    /\ [](pc = "parsed"
              /\ lexed[2] \in {<<>>, <<TNumber(Two), Plus>>,
                               <<Plus, TNumber(Two)>>, <<Minus, TVariable(X)>>}
              => IsErr(parsed))
    /\ [](pc = "parsed" /\ IsOk(parsed)
              => /\ parser.current <= Len(parser.tokens)
                 /\ NoUnarySign(parser.tokens, parser.current))

C12_Witness ==
    /\ pc = "parsed"
    /\ lexed = Ok(<<Minus, TVariable(X)>>)
    /\ stack = <<>>
    /\ parsed = Err(<<"Unexpected token">>)
    /\ parser.current = 1

\* C13: in every state of a parse the token sequence is the one the
\* parser was made with; no step moves the cursor back, and a step that
\* moves it moves it by exactly one; the cursor exceeds the number of
\* tokens by at most one, and only once an error is being returned; so
\* when parse_expression returns Ok the cursor is between 1 and the number
\* of tokens.
C13_CursorMonotone ==
    /\ [][pc = "parsing"
            => /\ parser'.tokens = parser.tokens
               /\ parser'.current \in {parser.current, parser.current + 1}]_vars
    /\ [](pc \in {"parsing", "parsed"}
            => /\ parser.tokens = lexed[2]
               /\ parser.current \in 0..(Len(parser.tokens) + 1)
               /\ parser.current > Len(parser.tokens) => IsErr(ret))
    /\ [](pc = "parsed" /\ IsOk(parsed)
            => parser.current \in 1..Len(parser.tokens))

C13_Witness ==
    /\ pc = "parsing"
    /\ lexed = Ok(<<TNumber(Two), Plus>>)
    /\ parser = [tokens |-> <<TNumber(Two), Plus>>, current |-> 3]
    /\ stack # <<>>
    /\ ret = Err(<<"Unexpected end of input">>)

====
